---- MODULE Spec2Model ----
(***************************************************************************)
(* The sharded LSM storage engine of internal/storage: the in-memory       *)
(* ordered index (skiplist.go), the segment file (sstable.go), and the     *)
(* engine that routes Set/Get/Delete to shards and flushes them            *)
(* (storage.go).  Threads run the engine's methods step by step; one step  *)
(* is one critical section or one atomic operation of the Go code.         *)
(***************************************************************************)
EXTENDS Integers, Sequences, FiniteSets, TLC

\* ------------------------------------------------------------- bounds
\* Engine threads (goroutines calling the engine concurrently).
MaxThreads == 2
\* Engine calls issued in one behaviour of concurrent threads.
MaxOps == 3
\* Engine calls (Close and NewStorage included) in one behaviour of a
\* single thread.
MaxSeqOps == 5
\* Largest shardsCount an engine is opened with.
MaxShards == 2
\* Number of segment writes that may fail with an I/O error.
MaxFail == 1
\* maxMemSize handed to NewStorage (bytes).
MaxMemSize == 64
\* blockSize handed to NewStorage (bytes).
BlockSize == 64
\* Largest n a BloomFilter on its own is made for.
MaxFilterN == 3

Threads == 1..MaxThreads
ShardCounts == 1..MaxShards

\* ------------------------------------------------------------- bytes
\* Keys are byte strings: "a" = <<97>>, "b" = <<98>>.
KeyA == <<97>>
KeyB == <<98>>
Keys == {KeyA, KeyB}
\* The empty key "", the key "ab", and every key a record can be stored
\* under.
KeyEmpty == <<>>
KeyAB == <<97, 98>>
AllKeys == Keys \cup {KeyEmpty, KeyAB}
\* A value is a byte string too, kept run-length encoded: len times byte.
Bytes(b, n) == [byte |-> b, len |-> n]
NoBytes == Bytes(0, 0)
\* Two 51-byte values (a record of 64 bytes with a 1-byte key).
ValX == Bytes(120, 51)
ValY == Bytes(121, 51)
\* What a caller passes to Set: <<value, flags>>.
SetArgs == {<<ValX, 0>>, <<ValY, 7>>}

\* Go's string comparison: bytewise lexicographic.
RECURSIVE StrLess(_, _)
StrLess(s, t) ==
    IF t = <<>> THEN FALSE
    ELSE IF s = <<>> THEN TRUE
    ELSE IF Head(s) # Head(t) THEN Head(s) < Head(t)
    ELSE StrLess(Tail(s), Tail(t))

\* x XOR y on n-bit operands.
RECURSIVE XorBits(_, _, _)
XorBits(x, y, n) ==
    IF n = 0 THEN 0
    ELSE (((x % 2) + (y % 2)) % 2) + 2 * XorBits(x \div 2, y \div 2, n - 1)

\* hash/fnv New32a: 32-bit FNV-1a, kept as two 16-bit halves <<hi, lo>>
\* (offset basis 0x811C9DC5, prime 0x01000193, arithmetic mod 2^32).
Fnv32Basis == <<33052, 40389>>
Fnv32Step(h, b) ==
    LET lo == (h[2] \div 256) * 256 + XorBits(h[2] % 256, b, 8)
        p  == lo * 403
    IN  << (h[1] * 403 + lo * 256 + (p \div 65536)) % 65536, p % 65536 >>
RECURSIVE Fnv32a(_, _)
Fnv32a(h, s) == IF s = <<>> THEN h ELSE Fnv32a(Fnv32Step(h, Head(s)), Tail(s))
Sum32Mod(h, n) == (((h[1] % n) * (65536 % n)) + (h[2] % n)) % n

\* Storage.getShard: index of the shard that owns key, for n shards.
getShard(key, n) == Sum32Mod(Fnv32a(Fnv32Basis, key), n)

\* ---------------------------------------------------------- skip list
\* A record of the ordered index; NoRec stands for "key absent".
NoRec == [tomb |-> FALSE, value |-> NoBytes, flags |-> 0, present |-> FALSE]
Rec(value, flags, tomb) ==
    [tomb |-> tomb, value |-> value, flags |-> flags, present |-> TRUE]

\* NewSkipList: no nodes, size 0.
NewSkipList == [recs |-> [k \in AllKeys |-> NoRec], size |-> 0]

\* A Set that leaves an existing node as it is.
SkipListSetFirstWins(sl, key, value, flags, isTombstone) ==
    IF sl.recs[key].present
    THEN sl
    ELSE [recs |-> [sl.recs EXCEPT ![key] = Rec(value, flags, isTombstone)],
          size |-> sl.size + Len(key) + value.len + 12]

\* SkipList.Set: an existing node is overwritten in place and the size is
\* left alone; a new node adds len(key) + len(value) + 12.
SkipListSet(sl, key, value, flags, isTombstone) ==
    IF sl.recs[key].present
    THEN [sl EXCEPT !.recs[key] = Rec(value, flags, isTombstone)]
    ELSE [recs |-> [sl.recs EXCEPT ![key] = Rec(value, flags, isTombstone)],
          size |-> sl.size + Len(key) + value.len + 12]

\* SkipList.Delete: Set(key, nil, 0, true).
SkipListDelete(sl, key) == SkipListSet(sl, key, NoBytes, 0, TRUE)

\* SkipList.Get: (value, flags, isTombstone, found).
SkipListGet(sl, key) == sl.recs[key]

\* The level-0 traversal: the keys of the list in ascending order.
RECURSIVE SortKeys(_)
SortKeys(S) ==
    IF S = {} THEN <<>>
    ELSE LET m == CHOOSE x \in S : \A y \in S \ {x} : StrLess(x, y)
         IN  <<m>> \o SortKeys(S \ {m})
SkipListKeys(sl) == SortKeys({k \in AllKeys : sl.recs[k].present})

\* ------------------------------------------------------- bloom filter
\* NewBloomFilter(n, 0.01): the byte length of the filter;
\* m = uint32(n * 9.585...) bits, (m + 7) / 8 bytes (exact for n < 100).
NewBloomFilterLen(n) == (((n * 9585) \div 1000) + 7) \div 8

\* BloomFilter.Add computes idx % m with m = len(bf) * 8: a run-time panic
\* (integer divide by zero) when the filter has no bytes.
BloomAddPanics(filterLen) == filterLen * 8 = 0

\* hash/fnv New64a: 64-bit FNV-1a, kept as four 16-bit limbs, most
\* significant first (offset basis 0xCBF29CE484222325, prime
\* 0x100000001B3 = 2^40 + 435, arithmetic mod 2^64).
Fnv64Basis == <<52210, 40164, 33826, 8997>>
Fnv64Step(h, b) ==
    LET l0 == (h[4] \div 256) * 256 + XorBits(h[4] % 256, b, 8)
        t0 == l0 * 435
        t1 == h[3] * 435 + (t0 \div 65536)
        t2 == h[2] * 435 + (t1 \div 65536) + ((l0 * 256) % 65536)
        t3 == h[1] * 435 + (t2 \div 65536) + (l0 \div 256) + (h[3] % 256) * 256
    IN  << t3 % 65536, t2 % 65536, t1 % 65536, t0 % 65536 >>
RECURSIVE Fnv64a(_, _)
Fnv64a(h, s) == IF s = <<>> THEN h ELSE Fnv64a(Fnv64Step(h, Head(s)), Tail(s))

\* hashKey: the two 32-bit halves of the 64-bit hash, low half first, each
\* as <<hi, lo>>.
hashKey(key) ==
    LET u == Fnv64a(Fnv64Basis, key)
    IN  << <<u[3], u[4]>>, <<u[1], u[2]>> >>

\* The bit positions (h[0] + i * h[1]) % m for i = 0..3 of Add and
\* Contains, the sum taken mod 2^32 as uint32 arithmetic does.
BloomIdx(key, m) ==
    { LET h  == hashKey(key)
          lo == h[1][2] + i * h[2][2]
          hi == h[1][1] + i * h[2][1] + (lo \div 65536)
      IN  Sum32Mod(<<hi % 65536, lo % 65536>>, m) : i \in 0..3 }

\* BloomFilter.Add on a filter of filterLen bytes with the bits filterBits
\* set: the bits set afterwards (defined when the filter has bytes).
BloomAdd(filterLen, filterBits, key) ==
    filterBits \cup BloomIdx(key, filterLen * 8)
RECURSIVE BloomAddAll(_, _, _)
BloomAddAll(filterLen, filterBits, keys) ==
    IF keys = <<>> THEN filterBits
    ELSE BloomAddAll(filterLen, BloomAdd(filterLen, filterBits, Head(keys)),
                     Tail(keys))

\* ------------------------------------------------------- segment file
\* SSTable.writeEntry: the bytes one record takes in the data region.
EntrySize(key, rec) == 12 + Len(key) + rec.value.len

\* SSTable.Write, data region: the records in key order, each with the
\* offset it was written at.
RECURSIVE WriteEntries(_, _, _)
WriteEntries(sl, keys, offset) ==
    IF keys = <<>> THEN <<>>
    ELSE LET k == Head(keys)
             r == sl.recs[k]
         IN  <<[key |-> k, value |-> r.value, flags |-> r.flags,
                tomb |-> r.tomb, offset |-> offset]>>
             \o WriteEntries(sl, Tail(keys), offset + EntrySize(k, r))

\* A sparse index with an entry for every record.
WriteIndexEvery(entries, lastIndexEntryOffset, blockSize) ==
    [j \in 1..Len(entries) |-> [key |-> entries[j].key, offset |-> entries[j].offset]]

\* SSTable.Write, sparse index: an entry for the record at offset 0 and
\* for each record at least blockSize bytes after the last entry.
RECURSIVE WriteIndex(_, _, _)
WriteIndex(entries, lastIndexEntryOffset, blockSize) ==
    IF entries = <<>> THEN <<>>
    ELSE LET e == Head(entries)
         IN  IF e.offset = 0 \/ (e.offset - lastIndexEntryOffset) >= blockSize
             THEN <<[key |-> e.key, offset |-> e.offset]>>
                  \o WriteIndex(Tail(entries), e.offset, blockSize)
             ELSE WriteIndex(Tail(entries), lastIndexEntryOffset, blockSize)

\* SSTable.Write: the content of the file written from a skip list.
SSTableWrite(sl, blockSize) ==
    LET entries == WriteEntries(sl, SkipListKeys(sl), 0)
    IN  [entries |-> entries,
         index |-> WriteIndex(entries, 0, blockSize),
         bloomStart |-> IF entries = <<>> THEN 0
                        ELSE LET e == entries[Len(entries)]
                             IN  e.offset + 12 + Len(e.key) + e.value.len,
         filterLen |-> NewBloomFilterLen(sl.size \div 64),
         filterBits |-> IF BloomAddPanics(NewBloomFilterLen(sl.size \div 64))
                        THEN {}
                        ELSE BloomAddAll(NewBloomFilterLen(sl.size \div 64),
                                         {}, SkipListKeys(sl))]

\* What a segment write that failed or panicked part-way leaves behind.
PartialBody == [entries |-> <<>>, index |-> <<>>, bloomStart |-> 0,
                filterLen |-> 0, filterBits |-> {}]

\* A file of the data directory, named "<shard>.<ts>.sst".
File(shard, ts, body, complete) ==
    [shard |-> shard, ts |-> ts, body |-> body, complete |-> complete]

\* SSTable.hashString: the 64-bit FNV-1a hash of a key.
hashString(key) == Fnv64a(Fnv64Basis, key)

\* SSTable.rebuildHashIndex: one pass over the data region; the offset
\* of each record is stored under the hash of its key, a later record
\* replacing an earlier one with the same hash.
RECURSIVE rebuildHashIndex(_, _)
rebuildHashIndex(entries, hashIndex) ==
    IF entries = <<>> THEN hashIndex
    ELSE LET e == Head(entries)
             h == hashString(e.key)
         IN  rebuildHashIndex(Tail(entries),
                 {p \in hashIndex : p.h # h} \cup {[h |-> h, offset |-> e.offset]})

\* SSTable.rebuildHashIndex on a file some of whose keys have one
\* 64-bit hash: same is a set of keys taken to collide (FNV-64a has such
\* keys, none as short as the keys here).  The map's entry for that hash
\* is found under the hash of each key of same.
RECURSIVE rebuildHashIndexColliding(_, _, _)
rebuildHashIndexColliding(entries, hashIndex, same) ==
    IF entries = <<>> THEN hashIndex
    ELSE LET e == Head(entries)
             hs == {hashString(k) : k \in (IF e.key \in same THEN same ELSE {e.key})}
         IN  rebuildHashIndexColliding(Tail(entries),
                 {p \in hashIndex : p.h \notin hs}
                     \cup {[h |-> x, offset |-> e.offset] : x \in hs},
                 same)

\* OpenSSTable: the reader of a completely written file (trailer, filter
\* and sparse index read into memory, the hash index rebuilt from the
\* data region, the records read on demand).
OpenSSTable(f) ==
    [shard |-> f.shard, ts |-> f.ts, entries |-> f.body.entries,
     index |-> f.body.index, bloomStart |-> f.body.bloomStart,
     filterLen |-> f.body.filterLen, filterBits |-> f.body.filterBits,
     hashIndex |-> rebuildHashIndex(f.body.entries, {})]

\* BloomFilter.Contains: a filter of no bytes contains everything;
\* otherwise all four bit positions of the key must be set.
BloomContains(t, key) ==
    t.filterLen = 0 \/ BloomIdx(key, t.filterLen * 8) \subseteq t.filterBits

\* A read of the record at offset that does not compare its key.
readEntryAtAnyKey(t, offset, searchKey) ==
    LET e == CHOOSE x \in {t.entries[i] : i \in 1..Len(t.entries)} :
                 x.offset = offset
    IN  Rec(e.value, e.flags, e.tomb)

\* SSTable.readEntryAt without a read error: the record at offset when
\* its key is searchKey, else nothing.
readEntryAt(t, offset, searchKey) ==
    LET e == CHOOSE x \in {t.entries[i] : i \in 1..Len(t.entries)} :
                 x.offset = offset
    IN  IF e.key # searchKey THEN NoRec ELSE Rec(e.value, e.flags, e.tomb)

\* A search for the first index entry whose key is not smaller, which
\* sends a key equal to an entry's key to the block before it.
RECURSIVE SearchIndexNotSmaller(_, _, _)
SearchIndexNotSmaller(index, searchKey, i) ==
    IF i >= Len(index) THEN Len(index)
    ELSE IF ~StrLess(index[i + 1].key, searchKey) THEN i
    ELSE SearchIndexNotSmaller(index, searchKey, i + 1)

\* sort.Search(len(index), index[i].Key > searchKey), 0-based.
RECURSIVE SearchIndex(_, _, _)
SearchIndex(index, searchKey, i) ==
    IF i >= Len(index) THEN Len(index)
    ELSE IF StrLess(searchKey, index[i + 1].key) THEN i
    ELSE SearchIndex(index, searchKey, i + 1)

\* The linear scan of one block: the record with the key, or none once a
\* greater key or the end of the block is met.
RECURSIVE ScanBlock(_, _)
ScanBlock(block, searchKey) ==
    IF block = <<>> THEN NoRec
    ELSE LET e == Head(block)
         IN  IF e.key = searchKey THEN Rec(e.value, e.flags, e.tomb)
             ELSE IF StrLess(searchKey, e.key) THEN NoRec
             ELSE ScanBlock(Tail(block), searchKey)

\* SSTable.Get, sparse-index path without a read error: the block that
\* may hold the key is the one of the last index entry whose key is not
\* greater (the first block when every entry is greater); it ends at the
\* next index entry or at the filter.
SparseGet(t, searchKey) ==
    IF Len(t.index) = 0 THEN NoRec
    ELSE LET i == SearchIndex(t.index, searchKey, 0)
             targetIdx == IF i > 0 THEN i - 1 ELSE 0
             startOffset == t.index[targetIdx + 1].offset
             endOffset == IF targetIdx + 1 < Len(t.index)
                          THEN t.index[targetIdx + 2].offset
                          ELSE t.bloomStart
             InBlock(e) == e.offset >= startOffset /\ e.offset < endOffset
         IN  ScanBlock(SelectSeq(t.entries, InBlock), searchKey)

\* The positional reads SSTable.Get may issue: the record read of the
\* hash-index path and the block read of the sparse-index path.
Reads == {"hash", "block"}

\* SSTable.Get where the reads in fails return an I/O error: filter, hash
\* index, then sparse index and block scan.  The hash-index lookup
\* returns only when the read succeeded and gave the record; in every
\* other case Get goes on to the sparse index.  failed is the set of
\* failing reads the call issued.
SSTableGetRead(t, searchKey, fails) ==
    IF ~BloomContains(t, searchKey)
    THEN [err |-> FALSE, rec |-> NoRec, failed |-> {}]
    ELSE LET hit == {p \in t.hashIndex : p.h = hashString(searchKey)}
             offset == (CHOOSE p \in hit : TRUE).offset
             hashFailed == IF hit # {} THEN fails \cap {"hash"} ELSE {}
         IN  IF /\ hit # {}
                /\ "hash" \notin fails
                /\ readEntryAt(t, offset, searchKey).present
             THEN [err |-> FALSE, rec |-> readEntryAt(t, offset, searchKey),
                   failed |-> {}]
             ELSE IF Len(t.index) = 0
             THEN [err |-> FALSE, rec |-> NoRec, failed |-> hashFailed]
             ELSE IF "block" \in fails
             THEN [err |-> TRUE, rec |-> NoRec, failed |-> hashFailed \cup {"block"}]
             ELSE [err |-> FALSE, rec |-> SparseGet(t, searchKey),
                   failed |-> hashFailed]

\* SSTable.Get when every read succeeds.
SSTableGet(t, searchKey) == SSTableGetRead(t, searchKey, {}).rec

\* ------------------------------------------------------------- engine
VARIABLES
    shardsCount,  \* Storage.shardsCount
    skipList,     \* Storage.shards[i].skipList
    shardMu,      \* Storage.shards[i].mu: the thread holding it, or 0
    shardsSize,   \* Storage.shardsSize (atomic)
    flushMutex,   \* Storage.flushMutex: the thread holding it, or 0
    tablesMutex,  \* Storage.tablesMutex: its readers and its writer, or 0
    tables,       \* Storage.tables: the opened segments, in registry order
    dir,          \* the .sst files of the data directory
    clock,        \* time.Now().UnixNano(), as ticks after UnixNanoBase
    closing,      \* Close has been called on the engine
    closed,       \* Close has closed the segment readers
    nfail,        \* segment writes that have failed so far
    nops,         \* engine calls that may still be issued
    pc,           \* per thread: where it is in the call it runs
    op,           \* per thread: the call it runs, with its arguments
    fl,           \* per thread: flush's locals (i, path, err)
    ret,          \* per thread: what its last call returned
    exp,          \* per thread, for its Get: what the plain map held when
                  \* it began, and the newest record the source it probed held
    mem,          \* the plain map: the latest record written per key
    snap,         \* what Get answered for each key when Close was called
    pre,          \* the engine when the running flush took flushMutex: Get's
                  \* answers, the shards' sizes, the registry, shardsSize
    sst,          \* one segment file on its own: the index it is written
                  \* from, its content, its reader and a Get on the reader
    bf,           \* one BloomFilter on its own, and the keys added to it
    hdr,          \* one record header on its own: the lengths of the key
                  \* and the value given to Set, and the fields written
    list          \* one SkipList on its own, node by node, with the
                  \* latest call made on it

vars == <<shardsCount, skipList, shardMu, shardsSize, flushMutex, tablesMutex, tables, dir,
          clock, closing, closed, nfail, nops, pc, op, fl, ret, exp, mem, snap,
          pre, sst, bf, hdr, list>>

\* The reader of a file without records.
NoTable == OpenSSTable(File(0, 0, PartialBody, TRUE))

\* No segment file is looked at on its own; no filter is.
NoSst == [stage |-> "none", sl |-> NewSkipList, blockSize |-> 0,
          body |-> PartialBody, table |-> NoTable, key |-> KeyEmpty,
          got |-> NoRec, sparse |-> NoRec]
NoBf == [stage |-> "none", filterLen |-> 0, filterBits |-> {}, added |-> {},
         key |-> KeyEmpty, answer |-> FALSE]

\* time.Now().UnixNano() is a 19-digit number; the model keeps the low
\* digits above a base so that every timestamp has the same digit count.
UnixNanoBase == 1000

NoOp == [name |-> "none", key |-> <<>>, value |-> NoBytes, flags |-> 0, delta |-> 0,
         lock |-> "none", ended |-> FALSE, acked |-> {}]
NoRet == [kind |-> "none", value |-> NoBytes, flags |-> 0]
RetOk == [kind |-> "ok", value |-> NoBytes, flags |-> 0]
RetErr == [kind |-> "err", value |-> NoBytes, flags |-> 0]
RetPanic == [kind |-> "panic", value |-> NoBytes, flags |-> 0]
RetNotFound == [kind |-> "notfound", value |-> NoBytes, flags |-> 0]
RetFound(value, flags) == [kind |-> "found", value |-> value, flags |-> flags]
NoExp == [valid |-> FALSE, rec |-> NoRec, newest |-> NoRec, failed |-> {}]
NoFlush == [i |-> 0, path |-> <<>>, err |-> "nil"]
\* tablesMutex (a sync.RWMutex) held by nobody.
NoLock == [readers |-> {}, writer |-> 0]
\* No record header written.
NoHdr == [stage |-> "none", keyLen |-> 0, valueLen |-> 0, kLen |-> 0, vLen |-> 0]
\* No SkipList looked at node by node.
NoList == [stage |-> "none", nodes |-> <<>>, level |-> 0, size |-> 0,
           last |-> [k \in AllKeys |-> NoRec], key |-> KeyEmpty, got |-> NoRec]
NoSnap == [k \in AllKeys |-> NoRet]
NoPre == [on |-> FALSE, valid |-> FALSE, get |-> NoSnap, sizes |-> <<>>,
          tables |-> <<>>, shardsSize |-> 0]

\* A registration that puts the new reader first.
loadSSTableFirst(tbls, f) == <<OpenSSTable(f)>> \o tbls

\* Storage.loadSSTable: under the registry's lock, open the file and
\* append its reader to the registry.
loadSSTable(tbls, f) == Append(tbls, OpenSSTable(f))

\* strconv of fmt's %d: the decimal digits of n as bytes.
RECURSIVE Digits(_)
Digits(n) == IF n < 10 THEN <<48 + n>> ELSE Digits(n \div 10) \o <<48 + (n % 10)>>

\* fmt.Sprintf("%d.%d.sst", i, time.Now().UnixNano()).
FileName(f) == Digits(f.shard) \o <<46>> \o Digits(f.ts) \o <<46, 115, 115, 116>>

\* sort.Strings on the paths of the directory's .sst files.
RECURSIVE SortFiles(_)
SortFiles(S) ==
    IF S = {} THEN <<>>
    ELSE LET m == CHOOSE x \in S :
                    \A y \in S \ {x} : StrLess(FileName(x), FileName(y))
         IN  <<m>> \o SortFiles(S \ {m})

\* Storage.loadSSTables: load the files in the order of their sorted paths.
RECURSIVE LoadAll(_, _)
LoadAll(tbls, files) ==
    IF files = <<>> THEN tbls
    ELSE LoadAll(loadSSTable(tbls, Head(files)), Tail(files))
loadSSTables(d) == LoadAll(<<>>, SortFiles(d))

\* The data directory an earlier engine with m shards left behind after
\* Set(KeyB, ValX, 0) and Close: one segment file holding that record.
EarlierRun(m) ==
    {File(getShard(KeyB, m), UnixNanoBase,
          SSTableWrite(SkipListSet(NewSkipList, KeyB, ValX, 0, FALSE), BlockSize),
          TRUE)}

\* NewStorage with n shards on data directory d, whose files hold the
\* records of map m.
InitFor(n, d, m) ==
    /\ shardsCount = n
    /\ skipList = [i \in 0..(n - 1) |-> NewSkipList]
    /\ shardMu = [i \in 0..(n - 1) |-> 0]
    /\ shardsSize = 0
    /\ flushMutex = 0
    /\ tablesMutex = NoLock
    /\ dir = d
    /\ tables = loadSSTables(d)
    /\ clock = 0
    /\ closing = FALSE
    /\ closed = FALSE
    /\ pc = [t \in Threads |-> "idle"]
    /\ op = [t \in Threads |-> NoOp]
    /\ fl = [t \in Threads |-> NoFlush]
    /\ ret = [t \in Threads |-> NoRet]
    /\ exp = [t \in Threads |-> NoExp]
    /\ mem = m
    /\ snap = NoSnap
    /\ hdr = NoHdr
    /\ list = NoList

NoMap == [k \in AllKeys |-> NoRec]
EarlierMap == [NoMap EXCEPT ![KeyB] = Rec(ValX, 0, FALSE)]

\* An engine opened on an empty directory, or on the directory of an
\* earlier run with the same number of shards.
Init == /\ \E n \in ShardCounts :
            \/ InitFor(n, {}, NoMap)
            \/ InitFor(n, EarlierRun(n), EarlierMap)
        /\ pre = NoPre
        /\ nfail = 0
        /\ nops = MaxOps
        /\ sst = NoSst
        /\ bf = NoBf

\* A call may start: the thread runs nothing, the engine is open.
CanCall(t) == pc[t] = "idle" /\ ~closing /\ nops > 0

\* Some other thread is inside a Set of key (Delete is one step).
WriteInFlight(t, key) ==
    \E u \in Threads \ {t} : pc[u] # "idle" /\ op[u].name = "Set" /\ op[u].key = key

\* A write of key begins: a Get of key in progress loses its expectation.
DropExp(t, key) ==
    [u \in Threads |->
        IF u # t /\ pc[u] \in {"G_scan", "G_read"} /\ op[u].key = key
        THEN [exp[u] EXCEPT !.valid = FALSE] ELSE exp[u]]

\* Storage.Set, first part, for a key of K: under the shard's lock, set
\* the record and take the size before and after.
SetOf(t, K) ==
    /\ CanCall(t)
    /\ \E key \in K, a \in SetArgs :
        LET i == getShard(key, shardsCount)
            sl == SkipListSet(skipList[i], key, a[1], a[2], FALSE)
        IN  /\ shardMu[i] = 0
            /\ skipList' = [skipList EXCEPT ![i] = sl]
            /\ op' = [op EXCEPT ![t] = [name |-> "Set", key |-> key, value |-> a[1],
                                        flags |-> a[2],
                                        delta |-> sl.size - skipList[i].size,
                                        lock |-> "none", ended |-> FALSE,
                                        acked |-> {}]]
            /\ mem' = [mem EXCEPT ![key] = Rec(a[1], a[2], FALSE)]
            /\ exp' = DropExp(t, key)
    /\ pc' = [pc EXCEPT ![t] = "S_add"]
    /\ ret' = [ret EXCEPT ![t] = NoRet]
    /\ nops' = nops - 1
    /\ UNCHANGED <<pre, hdr, list, tablesMutex, sst, bf, shardsCount, shardMu, shardsSize, flushMutex, tables, dir,
                   clock, closing, closed, nfail, fl, snap>>

\* Storage.Set called with a non-empty key.
Set(t) == SetOf(t, Keys)

\* A threshold test that leaves equality out.
OverMaxMemSize(size) == size > MaxMemSize

\* Storage.Set, the threshold test on the value the atomic add returned.
ReachedMaxMemSize(size) == size >= MaxMemSize

\* Storage.Set, second part: the atomic add and the threshold test.
SetAdd(t) ==
    /\ pc[t] = "S_add"
    /\ shardsSize' = shardsSize + op[t].delta
    /\ IF ReachedMaxMemSize(shardsSize')
       THEN /\ pc' = [pc EXCEPT ![t] = "F_try"]
            /\ ret' = ret
       ELSE /\ pc' = [pc EXCEPT ![t] = "idle"]
            /\ ret' = [ret EXCEPT ![t] = RetOk]
    /\ UNCHANGED <<pre, hdr, list, tablesMutex, sst, bf, shardsCount, skipList, shardMu, flushMutex, tables, dir, clock,
                   closing, closed, nfail, nops, op, fl, exp, mem, snap>>

\* A loop over the registry that answers from its first entry holding key.
GetTablesOldestFirst(tbls, i, key) ==
    LET hits == {j \in 1..i : SSTableGet(tbls[j], key).present}
    IN  IF hits = {} THEN RetNotFound
        ELSE LET j == CHOOSE j \in hits : \A h \in hits : j <= h
                 r == SSTableGet(tbls[j], key)
             IN  IF r.tomb THEN RetNotFound ELSE RetFound(r.value, r.flags)

\* Storage.Get, the loop over the registry from its last entry to its
\* first, where the reads in bad (pairs <<segment, read>>) return an I/O
\* error: an error ends it with the error, a tombstone with not-found, a
\* value with found.  failed is the set of failing reads the loop issued.
RECURSIVE GetTablesRead(_, _, _, _)
GetTablesRead(tbls, i, key, bad) ==
    IF i = 0 THEN [ret |-> RetNotFound, failed |-> {}]
    ELSE LET g == SSTableGetRead(tbls[i], key, {rd \in Reads : <<i, rd>> \in bad})
             here == {<<i, rd>> : rd \in g.failed}
             r == g.rec
         IN  IF g.err THEN [ret |-> RetErr, failed |-> here]
             ELSE IF r.tomb THEN [ret |-> RetNotFound, failed |-> here]
             ELSE IF r.present
             THEN [ret |-> RetFound(r.value, r.flags), failed |-> here]
             ELSE LET older == GetTablesRead(tbls, i - 1, key, bad)
                  IN  [ret |-> older.ret, failed |-> here \cup older.failed]

\* Storage.Get, the loop over the registry when every read succeeds: a
\* tombstone ends it with not-found, a value ends it with found.
GetTables(tbls, i, key) == GetTablesRead(tbls, i, key, {}).ret

\* The record of key in the registry's latest segment that holds one.
HoldsKey(tbl, key) == \E j \in 1..Len(tbl.entries) : tbl.entries[j].key = key
NewestInTables(tbls, key) ==
    IF \E i \in 1..Len(tbls) : HoldsKey(tbls[i], key)
    THEN LET i == CHOOSE i \in 1..Len(tbls) :
                    /\ HoldsKey(tbls[i], key)
                    /\ \A j \in (i + 1)..Len(tbls) : ~HoldsKey(tbls[j], key)
             e == CHOOSE e \in {tbls[i].entries[j] : j \in 1..Len(tbls[i].entries)} :
                    e.key = key
         IN  Rec(e.value, e.flags, e.tomb)
    ELSE NoRec

\* An answer that hands out a record whatever its tombstone bit.
GetMemSurfacing(r) == RetFound(r.value, r.flags)

\* Storage.Get, the answer from a record found in the shard's skip list.
GetMem(r) == IF r.tomb THEN RetNotFound ELSE RetFound(r.value, r.flags)

\* Storage.Get, first part, for a key of K: probe the owning shard's skip
\* list under its lock; a record found there is the answer.
GetOf(t, K) ==
    /\ CanCall(t)
    /\ \E key \in K :
        LET i == getShard(key, shardsCount)
            r == SkipListGet(skipList[i], key)
        IN  /\ shardMu[i] = 0
            /\ op' = [op EXCEPT ![t] = [NoOp EXCEPT !.name = "Get", !.key = key]]
            /\ exp' = [exp EXCEPT ![t] =
                        [valid |-> ~WriteInFlight(t, key), rec |-> mem[key],
                         newest |-> skipList[i].recs[key], failed |-> {}]]
            /\ IF r.present
               THEN /\ pc' = pc
                    /\ ret' = [ret EXCEPT ![t] = GetMem(r)]
               ELSE /\ pc' = [pc EXCEPT ![t] = "G_scan"]
                    /\ ret' = [ret EXCEPT ![t] = NoRet]
    /\ nops' = nops - 1
    /\ UNCHANGED <<pre, hdr, list, tablesMutex, sst, bf, shardsCount, skipList, shardMu, shardsSize, flushMutex, tables,
                   dir, clock, closing, closed, nfail, fl, mem, snap>>

\* Storage.Get called with a non-empty key.
Get(t) == GetOf(t, Keys)

\* Storage.Get, second part: under the registry's read lock, ask the
\* segments.
GetScan(t) ==
    /\ pc[t] = "G_scan"
    /\ tablesMutex.writer = 0
    /\ ret' = [ret EXCEPT ![t] = GetTables(tables, Len(tables), op[t].key)]
    /\ exp' = [exp EXCEPT ![t].newest = NewestInTables(tables, op[t].key)]
    /\ pc' = [pc EXCEPT ![t] = "idle"]
    /\ UNCHANGED <<pre, hdr, list, tablesMutex, sst, bf, shardsCount, skipList, shardMu, shardsSize, flushMutex, tables,
                   dir, clock, closing, closed, nfail, nops, op, fl, mem, snap>>

\* Storage.Get, second part, where reads of one of the segments fail.
GetScanFail(t) ==
    /\ pc[t] = "G_scan"
    /\ \E j \in 1..Len(tables), fails \in SUBSET Reads :
        LET g == GetTablesRead(tables, Len(tables), op[t].key, {j} \X fails)
        IN  /\ fails # {}
            /\ ret' = [ret EXCEPT ![t] = g.ret]
            /\ exp' = [exp EXCEPT ![t].newest = NewestInTables(tables, op[t].key),
                                   ![t].failed = g.failed]
    /\ pc' = [pc EXCEPT ![t] = "idle"]
    /\ UNCHANGED <<pre, hdr, list, tablesMutex, sst, bf, shardsCount, skipList, shardMu, shardsSize, flushMutex, tables,
                   dir, clock, closing, closed, nfail, nops, op, fl, mem, snap>>

\* Storage.Delete: under the shard's lock, put a tombstone; the aggregate
\* size is not touched and no flush is tried.
Delete(t) ==
    /\ CanCall(t)
    /\ \E key \in Keys :
        LET i == getShard(key, shardsCount)
        IN  /\ shardMu[i] = 0
            /\ skipList' = [skipList EXCEPT ![i] = SkipListDelete(skipList[i], key)]
            /\ op' = [op EXCEPT ![t] = [NoOp EXCEPT !.name = "Delete", !.key = key]]
            /\ mem' = [mem EXCEPT ![key] = Rec(NoBytes, 0, TRUE)]
            /\ exp' = DropExp(t, key)
    /\ ret' = [ret EXCEPT ![t] = RetOk]
    /\ nops' = nops - 1
    /\ UNCHANGED <<pre, hdr, list, tablesMutex, sst, bf, shardsCount, shardMu, shardsSize, flushMutex, tables, dir, clock,
                   closing, closed, nfail, pc, fl, snap>>

\* Storage.Get run in one piece on an engine of n shards with the skip
\* lists sls and the registry tbls: what it answers for key.
GetAt(n, sls, tbls, key) ==
    LET r == SkipListGet(sls[getShard(key, n)], key)
    IN  IF r.present THEN GetMem(r) ELSE GetTables(tbls, Len(tbls), key)

\* Storage.Get run in one piece: what it answers for key in this state.
GetNow(key) == GetAt(shardsCount, skipList, tables, key)

\* The engine as a flush finds it when it takes flushMutex (recorded in
\* the runs that compare a flush's effect with it).
PreFlush ==
    [on |-> TRUE, valid |-> TRUE,
     get |-> [k \in AllKeys |-> GetNow(k)],
     sizes |-> [i \in 0..(shardsCount - 1) |-> skipList[i].size],
     tables |-> tables,
     shardsSize |-> shardsSize]

\* What the caller of flush does with flush's result: Set returns it,
\* Close goes on to closeTables unless it is an error.
AfterFlush(t, err) ==
    IF op[t].name = "Close" /\ err = "nil"
    THEN /\ pc' = [pc EXCEPT ![t] = "C_tables"]
         /\ ret' = ret
    ELSE /\ pc' = [pc EXCEPT ![t] = "idle"]
         /\ ret' = [ret EXCEPT ![t] = IF err = "nil" THEN RetOk
                                      ELSE IF err = "err" THEN RetErr
                                      ELSE RetPanic]

\* A flush that waits for flushMutex with Lock() instead of trying it.
FlushLock(t) ==
    /\ pc[t] = "F_try"
    /\ flushMutex = 0
    /\ flushMutex' = t
    /\ pc' = [pc EXCEPT ![t] = "F_size"]
    /\ op' = [op EXCEPT ![t].lock = "taken"]
    /\ fl' = [fl EXCEPT ![t] = NoFlush]
    /\ UNCHANGED <<pre, hdr, list, tablesMutex, sst, bf, shardsCount, skipList, shardMu, shardsSize, tables, dir, clock,
                   closing, closed, nfail, nops, ret, exp, mem, snap>>

\* A TryLock that never fails.
TryLockAlways(t) == TRUE

\* flushMutex.TryLock(): taken when free; otherwise the thread goes on
\* without it.
TryLock(t) == flushMutex = 0

\* Storage.flush, the TryLock: without the lock flush returns nil.
FlushTry(t) ==
    /\ pc[t] = "F_try"
    /\ IF TryLock(t)
       THEN /\ flushMutex' = t
            /\ pc' = [pc EXCEPT ![t] = "F_size"]
            /\ ret' = ret
       ELSE /\ flushMutex' = flushMutex
            /\ AfterFlush(t, "nil")
    /\ op' = [op EXCEPT ![t].lock = IF TryLock(t) THEN "taken" ELSE "busy"]
    /\ fl' = [fl EXCEPT ![t] = NoFlush]
    /\ pre' = IF TryLock(t) /\ pre.on THEN PreFlush ELSE pre
    /\ UNCHANGED <<hdr, list, tablesMutex, sst, bf, shardsCount, skipList, shardMu, shardsSize,
                   tables, dir, clock, closing, closed, nfail, nops, exp, mem, snap>>

\* Storage.flush, the atomic load: nothing to do unless shardsSize > 0.
FlushSize(t) ==
    /\ pc[t] = "F_size"
    /\ pc' = [pc EXCEPT ![t] = IF shardsSize > 0 THEN "F_shard" ELSE "F_unlock"]
    /\ UNCHANGED <<pre, hdr, list, tablesMutex, sst, bf, shardsCount, skipList, shardMu, shardsSize, flushMutex, tables,
                   dir, clock, closing, closed, nfail, nops, op, fl, ret, exp, mem, snap>>

\* The loop's i++ and its test i < shardsCount.
NextShard(t, i) == IF i + 1 < shardsCount THEN "F_shard" ELSE "F_unlock"

\* Storage.flush, the loop head: lock shard i; an empty shard is unlocked
\* and skipped.
FlushShard(t) ==
    /\ pc[t] = "F_shard"
    /\ LET i == fl[t].i
       IN  /\ shardMu[i] = 0
           /\ IF skipList[i].size = 0
              THEN /\ shardMu' = shardMu
                   /\ pc' = [pc EXCEPT ![t] = NextShard(t, i)]
                   /\ fl' = [fl EXCEPT ![t].i = i + 1]
              ELSE /\ shardMu' = [shardMu EXCEPT ![i] = t]
                   /\ pc' = [pc EXCEPT ![t] = "F_write"]
                   /\ fl' = fl
    /\ UNCHANGED <<pre, hdr, list, tablesMutex, sst, bf, shardsCount, skipList, shardsSize, flushMutex, tables, dir, clock,
                   closing, closed, nfail, nops, op, ret, exp, mem, snap>>

\* What CreateSSTable can do for a skip list: panic in the filter's Add
\* when the filter got no bytes, else succeed or fail with an I/O error.
CreateOutcomes(sl) ==
    IF BloomAddPanics(NewBloomFilterLen(sl.size \div 64)) THEN {"panic"}
    ELSE IF nfail < MaxFail THEN {"nil", "err"}
    ELSE {"nil"}

\* A decrement that does not look at the write's result.
SizeAfterWriteAlways(size, n, err) == size - n

\* A flush that stores zero in the counter after a successful write.
SizeAfterWriteReset(size, n, err) == IF err = "nil" THEN 0 ELSE size

\* Storage.flush: shardsSize after CreateSSTable returned err for a skip
\* list of size n: decremented only when the write succeeded.
SizeAfterWrite(size, n, err) == IF err = "nil" THEN size - n ELSE size

\* os.OpenFile(path, O_CREATE|O_WRONLY|O_TRUNC): the file of that name
\* is created, or emptied when it exists, and then written.
CreateFile(d, f) ==
    {g \in d : <<g.shard, g.ts>> # <<f.shard, f.ts>>} \cup {f}

\* Storage.flush, shard i locked and not empty: write its skip list to a
\* new file.  On success subtract its size, give the shard a new skip list
\* and unlock it; on an error unlock the shard and return the error; a
\* panic leaves the shard locked.
FlushWriteAt(t, tick) ==
    /\ pc[t] = "F_write"
    /\ LET i == fl[t].i
           ts == UnixNanoBase + clock + tick
       IN  \E out \in CreateOutcomes(skipList[i]) :
            /\ clock' = clock + tick
            /\ shardsSize' = SizeAfterWrite(shardsSize, skipList[i].size, out)
            /\ IF out = "nil"
               THEN /\ dir' = CreateFile(dir, File(i, ts, SSTableWrite(skipList[i], BlockSize), TRUE))
                    /\ skipList' = [skipList EXCEPT ![i] = NewSkipList]
                    /\ shardMu' = [shardMu EXCEPT ![i] = 0]
                    /\ nfail' = nfail
                    /\ IF op[t].name = "Set"
                       THEN /\ pc' = [pc EXCEPT ![t] = "F_load"]
                            /\ fl' = [fl EXCEPT ![t].path = <<i, ts>>]
                       ELSE /\ pc' = [pc EXCEPT ![t] = NextShard(t, i)]
                            /\ fl' = [fl EXCEPT ![t].i = i + 1]
               ELSE /\ dir' = CreateFile(dir, File(i, ts, PartialBody, FALSE))
                    /\ shardMu' = [shardMu EXCEPT ![i] = IF out = "err" THEN 0 ELSE t]
                    /\ nfail' = IF out = "err" THEN nfail + 1 ELSE nfail
                    /\ pc' = [pc EXCEPT ![t] = "F_unlock"]
                    /\ fl' = [fl EXCEPT ![t].err = out]
                    /\ skipList' = skipList
    /\ UNCHANGED <<pre, hdr, list, tablesMutex, sst, bf, shardsCount, flushMutex, tables, closing, closed, nops, op, ret,
                   exp, mem, snap>>

\* The same, where time.Now() is later than every reading before it.
FlushWrite(t) == FlushWriteAt(t, 1)

\* The same, where time.Now() reads what it read the last time (a clock
\* of coarse resolution, or a wall clock that was set back).
FlushWriteSameTime(t) == FlushWriteAt(t, 0)

\* Storage.flush with load: register the file just written, then i++.
FlushLoad(t) ==
    /\ pc[t] = "F_load"
    /\ tablesMutex = NoLock
    /\ LET f == CHOOSE f \in dir : <<f.shard, f.ts>> = fl[t].path
       IN  tables' = loadSSTable(tables, f)
    /\ pc' = [pc EXCEPT ![t] = NextShard(t, fl[t].i)]
    /\ fl' = [fl EXCEPT ![t].i = fl[t].i + 1, ![t].path = <<>>]
    /\ UNCHANGED <<pre, hdr, list, tablesMutex, sst, bf, shardsCount, skipList, shardMu, shardsSize, flushMutex, dir, clock,
                   closing, closed, nfail, nops, op, ret, exp, mem, snap>>

\* Storage.flush, the deferred flushMutex.Unlock(), and the return.  (A
\* call whose TryLock failed is marked: the flush it met has ended.)
FlushUnlock(t) ==
    /\ pc[t] = "F_unlock"
    /\ flushMutex' = 0
    /\ AfterFlush(t, fl[t].err)
    /\ fl' = [fl EXCEPT ![t] = NoFlush]
    /\ op' = [u \in Threads |->
                IF op[u].lock = "busy" THEN [op[u] EXCEPT !.ended = TRUE] ELSE op[u]]
    /\ pre' = [NoPre EXCEPT !.on = pre.on]
    /\ UNCHANGED <<hdr, list, tablesMutex, sst, bf, shardsCount, skipList, shardMu, shardsSize,
                   tables, dir, clock, closing, closed, nfail, nops, exp, mem, snap>>

\* The records written by calls that have returned: the plain map's
\* record of every key no Set of which is in progress.
Acked(t) ==
    {<<k, mem[k]>> : k \in {x \in AllKeys : mem[x].present /\ ~WriteInFlight(t, x)}}

\* Storage.Close: flush(false), then closeTables.  (The call notes the
\* records acknowledged before it.)
Close(t) ==
    /\ CanCall(t)
    /\ closing' = TRUE
    /\ op' = [op EXCEPT ![t] = [NoOp EXCEPT !.name = "Close", !.acked = Acked(t)]]
    /\ pc' = [pc EXCEPT ![t] = "F_try"]
    /\ ret' = [ret EXCEPT ![t] = NoRet]
    /\ nops' = nops - 1
    /\ snap' = [k \in AllKeys |-> GetNow(k)]
    /\ UNCHANGED <<pre, hdr, list, tablesMutex, sst, bf, shardsCount, skipList, shardMu, shardsSize, flushMutex, tables,
                   dir, clock, closed, nfail, fl, exp, mem>>

\* Storage.closeTables: close every reader of the registry.
CloseTables(t) ==
    /\ pc[t] = "C_tables"
    /\ tablesMutex = NoLock
    /\ closed' = TRUE
    /\ pc' = [pc EXCEPT ![t] = "idle"]
    /\ ret' = [ret EXCEPT ![t] = RetOk]
    /\ UNCHANGED <<pre, hdr, list, tablesMutex, sst, bf, shardsCount, skipList, shardMu, shardsSize, flushMutex, tables,
                   dir, clock, closing, nfail, nops, op, fl, exp, mem, snap>>

\* NewStorage on the data directory of a closed engine, with n shards.
\* (OpenSSTable fails on a file that was not written completely.)
Reopen ==
    /\ closed
    /\ nops > 0
    /\ \A t \in Threads : pc[t] = "idle"
    /\ \A f \in dir : f.complete
    /\ \E n \in ShardCounts :
        /\ shardsCount' = n
        /\ skipList' = [i \in 0..(n - 1) |-> NewSkipList]
        /\ shardMu' = [i \in 0..(n - 1) |-> 0]
    /\ shardsSize' = 0
    /\ flushMutex' = 0
    /\ tables' = loadSSTables(dir)
    /\ closing' = FALSE
    /\ closed' = FALSE
    /\ nops' = nops - 1
    /\ op' = [t \in Threads |-> NoOp]
    /\ ret' = [t \in Threads |-> NoRet]
    /\ exp' = [t \in Threads |-> NoExp]
    /\ snap' = NoSnap
    /\ UNCHANGED <<pre, hdr, list, tablesMutex, sst, bf, dir, clock, nfail, pc, fl, mem>>

\* One step of thread t inside the engine.
Step(t) ==
    \/ Set(t) \/ SetAdd(t)
    \/ Get(t) \/ GetScan(t)
    \/ Delete(t)
    \/ FlushTry(t) \/ FlushSize(t) \/ FlushShard(t) \/ FlushWrite(t)
    \/ FlushLoad(t) \/ FlushUnlock(t)

\* Concurrent threads on one open engine.
Next == \E t \in Threads : Step(t)
Spec == Init /\ [][Next]_vars

\* One thread on an engine that is also closed and opened again, without
\* I/O errors.
InitSeq == /\ \E n \in ShardCounts :
               \/ InitFor(n, {}, NoMap)
               \/ \E m \in ShardCounts : InitFor(n, EarlierRun(m), EarlierMap)
           /\ pre = NoPre
           /\ nfail = MaxFail
           /\ nops = MaxSeqOps
           /\ sst = NoSst
           /\ bf = NoBf
NextSeq == Step(1) \/ Close(1) \/ CloseTables(1) \/ Reopen
SpecSeq == InitSeq /\ [][NextSeq]_vars

\* One thread on one open engine, without I/O errors.
NextOne == Step(1)
SpecOne == InitSeq /\ [][NextOne]_vars

\* One thread on one open engine that also passes the empty key.
SetEmptyKey(t) == SetOf(t, {KeyEmpty})
GetEmptyKey(t) == GetOf(t, {KeyEmpty})
InitArg == /\ \E n \in ShardCounts : InitFor(n, {}, NoMap)
           /\ pre = NoPre
           /\ nfail = MaxFail
           /\ nops = MaxOps
           /\ sst = NoSst
           /\ bf = NoBf
NextArg == Step(1) \/ SetEmptyKey(1) \/ GetEmptyKey(1)
SpecArg == InitArg /\ [][NextArg]_vars

\* Threads writing to one engine whose clock may read the same value
\* twice.
InitClock == /\ \E n \in ShardCounts : InitFor(n, {}, NoMap)
             /\ pre = NoPre
             /\ nfail = 0
             /\ nops = MaxOps
             /\ sst = NoSst
             /\ bf = NoBf
NextClock ==
    \E t \in Threads :
        \/ Set(t) \/ SetAdd(t) \/ Delete(t)
        \/ FlushTry(t) \/ FlushSize(t) \/ FlushShard(t)
        \/ FlushWrite(t) \/ FlushWriteSameTime(t)
        \/ FlushLoad(t) \/ FlushUnlock(t)
SpecClock == InitClock /\ [][NextClock]_vars

\* One thread on one open engine whose segment reads may fail.
InitRead == /\ \E n \in ShardCounts :
                \/ InitFor(n, {}, NoMap)
                \/ InitFor(n, EarlierRun(n), EarlierMap)
            /\ pre = NoPre
            /\ nfail = MaxFail
            /\ nops = MaxOps
            /\ sst = NoSst
            /\ bf = NoBf
NextRead == Step(1) \/ GetScanFail(1)
SpecRead == InitRead /\ [][NextRead]_vars

\* ------------------------------------------------- the registry's lock
\* Storage.Get, tablesMutex.RLock(): granted while no writer holds the
\* lock; the unlock is deferred to Get's return.
GetRLock(t) ==
    /\ pc[t] = "G_scan"
    /\ tablesMutex.writer = 0
    /\ tablesMutex' = [tablesMutex EXCEPT !.readers = @ \cup {t}]
    /\ pc' = [pc EXCEPT ![t] = "G_read"]
    /\ UNCHANGED <<pre, hdr, list, sst, bf, shardsCount, skipList, shardMu, shardsSize, flushMutex,
                   tables, dir, clock, closing, closed, nfail, nops, op, fl, ret, exp, mem,
                   snap>>

\* Storage.Get, the loop over the registry (SSTable.Get reads the file
\* with ReadAt), then the return, which runs the deferred RUnlock().
GetRead(t) ==
    /\ pc[t] = "G_read"
    /\ ret' = [ret EXCEPT ![t] = GetTables(tables, Len(tables), op[t].key)]
    /\ exp' = [exp EXCEPT ![t].newest = NewestInTables(tables, op[t].key)]
    /\ tablesMutex' = [tablesMutex EXCEPT !.readers = @ \ {t}]
    /\ pc' = [pc EXCEPT ![t] = "idle"]
    /\ UNCHANGED <<pre, hdr, list, sst, bf, shardsCount, skipList, shardMu, shardsSize, flushMutex,
                   tables, dir, clock, closing, closed, nfail, nops, op, fl, mem, snap>>

\* Storage.loadSSTable, tablesMutex.Lock(): granted while nobody holds
\* the lock.
LoadLock(t) ==
    /\ pc[t] = "F_load"
    /\ tablesMutex = NoLock
    /\ tablesMutex' = [tablesMutex EXCEPT !.writer = t]
    /\ pc' = [pc EXCEPT ![t] = "L_open"]
    /\ UNCHANGED <<pre, hdr, list, sst, bf, shardsCount, skipList, shardMu, shardsSize, flushMutex,
                   tables, dir, clock, closing, closed, nfail, nops, op, fl, ret, exp, mem,
                   snap>>

\* Storage.loadSSTable under the lock: open the file, append its reader,
\* unlock; then flush's i++.
LoadOpen(t) ==
    /\ pc[t] = "L_open"
    /\ LET f == CHOOSE f \in dir : <<f.shard, f.ts>> = fl[t].path
       IN  tables' = loadSSTable(tables, f)
    /\ tablesMutex' = NoLock
    /\ pc' = [pc EXCEPT ![t] = NextShard(t, fl[t].i)]
    /\ fl' = [fl EXCEPT ![t].i = fl[t].i + 1, ![t].path = <<>>]
    /\ UNCHANGED <<pre, hdr, list, sst, bf, shardsCount, skipList, shardMu, shardsSize, flushMutex, dir,
                   clock, closing, closed, nfail, nops, op, ret, exp, mem, snap>>

\* Storage.closeTables, tablesMutex.Lock().
CloseLock(t) ==
    /\ pc[t] = "C_tables"
    /\ tablesMutex = NoLock
    /\ tablesMutex' = [tablesMutex EXCEPT !.writer = t]
    /\ pc' = [pc EXCEPT ![t] = "C_close"]
    /\ UNCHANGED <<pre, hdr, list, sst, bf, shardsCount, skipList, shardMu, shardsSize, flushMutex,
                   tables, dir, clock, closing, closed, nfail, nops, op, fl, ret, exp, mem,
                   snap>>

\* Storage.closeTables under the lock: close every reader, unlock, and
\* Close returns nil.
CloseUnlock(t) ==
    /\ pc[t] = "C_close"
    /\ closed' = TRUE
    /\ tablesMutex' = NoLock
    /\ pc' = [pc EXCEPT ![t] = "idle"]
    /\ ret' = [ret EXCEPT ![t] = RetOk]
    /\ UNCHANGED <<pre, hdr, list, sst, bf, shardsCount, skipList, shardMu, shardsSize, flushMutex,
                   tables, dir, clock, closing, nfail, nops, op, fl, exp, mem, snap>>

\* One step of thread t where taking tablesMutex and releasing it are
\* steps of their own.
StepLock(t) ==
    \/ Set(t) \/ SetAdd(t)
    \/ Get(t) \/ GetRLock(t) \/ GetRead(t)
    \/ Delete(t)
    \/ FlushTry(t) \/ FlushSize(t) \/ FlushShard(t) \/ FlushWrite(t)
    \/ LoadLock(t) \/ LoadOpen(t) \/ FlushUnlock(t)
    \/ Close(t) \/ CloseLock(t) \/ CloseUnlock(t)

\* Concurrent threads, one of which may close the engine, with every
\* lock of the engine in the state.
NextLock == \E t \in Threads : StepLock(t)
SpecLock == Init /\ [][NextLock]_vars

\* ------------------------------------------------- one segment file
\* The block sizes a segment is written with: every record starts a
\* block, a block per record of 64 bytes, a block per two of them.
BlockSizes == {1, BlockSize, 2 * BlockSize}

\* The engine's variables, which a segment or a filter on its own leaves
\* alone.
engine == <<shardsCount, skipList, shardMu, shardsSize, flushMutex, tablesMutex, tables, dir,
            clock, closing, closed, nfail, nops, pc, op, fl, ret, exp, mem, snap, pre>>

\* SkipList.Set and SkipList.Delete on the index the segment is written
\* from.
SstSet ==
    /\ sst.stage = "build"
    /\ \E key \in AllKeys, a \in SetArgs :
        sst' = [sst EXCEPT !.sl = SkipListSet(sst.sl, key, a[1], a[2], FALSE)]
    /\ UNCHANGED <<engine, bf, hdr, list>>
SstDelete ==
    /\ sst.stage = "build"
    /\ \E key \in AllKeys :
        sst' = [sst EXCEPT !.sl = SkipListDelete(sst.sl, key)]
    /\ UNCHANGED <<engine, bf, hdr, list>>

\* CreateSSTable on a non-empty index: NewBloomFilter(size / 64, 0.01),
\* then Write, which panics in the filter's Add when the filter has no
\* bytes.
SstCreate ==
    /\ sst.stage = "build"
    /\ SkipListKeys(sst.sl) # <<>>
    /\ IF BloomAddPanics(NewBloomFilterLen(sst.sl.size \div 64))
       THEN sst' = [sst EXCEPT !.stage = "panic"]
       ELSE sst' = [sst EXCEPT !.stage = "written",
                               !.body = SSTableWrite(sst.sl, sst.blockSize)]
    /\ UNCHANGED <<engine, bf, hdr, list>>

\* OpenSSTable on the file written.
SstOpen ==
    /\ sst.stage = "written"
    /\ sst' = [sst EXCEPT !.stage = "opened",
                          !.table = OpenSSTable(File(0, 0, sst.body, TRUE))]
    /\ UNCHANGED <<engine, bf, hdr, list>>

\* SSTable.Get on the reader, and the sparse-index path of Get on its own.
SstGet ==
    /\ sst.stage \in {"opened", "got"}
    /\ \E key \in AllKeys :
        sst' = [sst EXCEPT !.stage = "got", !.key = key,
                          !.got = SSTableGet(sst.table, key),
                          !.sparse = SparseGet(sst.table, key)]
    /\ UNCHANGED <<engine, bf, hdr, list>>

InitSst ==
    /\ InitFor(1, {}, NoMap)
    /\ pre = NoPre
    /\ nfail = 0
    /\ nops = 0
    /\ \E b \in BlockSizes : sst = [NoSst EXCEPT !.stage = "build", !.blockSize = b]
    /\ bf = NoBf
NextSst == SstSet \/ SstDelete \/ SstCreate \/ SstOpen \/ SstGet
SpecSST == InitSst /\ [][NextSst]_vars

\* OpenSSTable on the file written, where no keys or two of the keys
\* have one hash.
SstOpenColliding ==
    /\ sst.stage = "written"
    /\ \E same \in SUBSET AllKeys :
        /\ Cardinality(same) \in {0, 2}
        /\ sst' = [sst EXCEPT
                    !.stage = "opened",
                    !.table = [OpenSSTable(File(0, 0, sst.body, TRUE)) EXCEPT
                        !.hashIndex = rebuildHashIndexColliding(sst.body.entries, {}, same)]]
    /\ UNCHANGED <<engine, bf, hdr, list>>

\* One segment file whose keys' hashes may collide.
NextHash == SstSet \/ SstDelete \/ SstCreate \/ SstOpenColliding \/ SstGet
SpecHash == InitSst /\ [][NextHash]_vars

\* ------------------------------------------------- one bloom filter
\* BloomFilter.Add: sets the four bits of the key; panics with an integer
\* divide by zero when the filter has no bytes.
BfAdd ==
    /\ bf.stage = "new"
    /\ \E key \in AllKeys :
        IF BloomAddPanics(bf.filterLen)
        THEN bf' = [bf EXCEPT !.stage = "panic", !.key = key]
        ELSE bf' = [bf EXCEPT !.filterBits = BloomAdd(bf.filterLen, bf.filterBits, key),
                              !.added = bf.added \cup {key}]
    /\ UNCHANGED <<engine, sst, hdr, list>>

\* BloomFilter.Contains.
BfContains ==
    /\ bf.stage = "new"
    /\ \E key \in AllKeys :
        bf' = [bf EXCEPT !.key = key, !.answer = BloomContains(bf, key)]
    /\ UNCHANGED <<engine, sst, hdr, list>>

\* NewBloomFilter(n, 0.01) for some n.
InitBloom ==
    /\ InitFor(1, {}, NoMap)
    /\ pre = NoPre
    /\ nfail = 0
    /\ nops = 0
    /\ sst = NoSst
    /\ \E n \in 0..MaxFilterN :
        bf = [NoBf EXCEPT !.stage = "new", !.filterLen = NewBloomFilterLen(n)]
NextBloom == BfAdd \/ BfContains
SpecBloom == InitBloom /\ [][NextBloom]_vars

\* ------------------------------------------------- one record header
\* uint16(n) of a length n.
Uint16(n) == n % 65536

\* The key and value lengths Set is called with: short keys, keys around
\* the largest length a 16-bit field holds, and keys of twice that.
KeyLens == (0..2) \cup (65534..65538) \cup (131071..131074)
ValueLens == {0, 1, 51}

\* Storage.Set with a key of keyLen bytes and a value of valueLen bytes:
\* no length is looked at; the record is stored and nil returned.
HdrSet ==
    /\ hdr.stage = "none"
    /\ \E keyLen \in KeyLens, valueLen \in ValueLens :
        hdr' = [NoHdr EXCEPT !.stage = "set", !.keyLen = keyLen, !.valueLen = valueLen]
    /\ UNCHANGED <<engine, sst, bf, list>>

\* SSTable.writeEntry for that record: the header's key-length field is
\* uint16(len(key)), its value-length field uint32(len(value)) (the
\* value lengths here are far below 2^32); then all bytes of the key and
\* of the value are written.
HdrWrite ==
    /\ hdr.stage = "set"
    /\ hdr' = [hdr EXCEPT !.stage = "written", !.kLen = Uint16(hdr.keyLen),
                          !.vLen = hdr.valueLen]
    /\ UNCHANGED <<engine, sst, bf, list>>

\* SSTable.readEntryAt at that record: the key is the kLen bytes after
\* the header, and the record ends kLen + vLen bytes after it.
HdrRead ==
    /\ hdr.stage = "written"
    /\ hdr' = [hdr EXCEPT !.stage = "read"]
    /\ UNCHANGED <<engine, sst, bf, list>>

InitHdr ==
    /\ InitFor(1, {}, NoMap)
    /\ pre = NoPre
    /\ nfail = 0
    /\ nops = 0
    /\ sst = NoSst
    /\ bf = NoBf
NextHdr == HdrSet \/ HdrWrite \/ HdrRead
SpecHdr == InitHdr /\ [][NextHdr]_vars

\* ------------------------------------------------------------- claims
\* What a plain map answers for a key whose latest record is r.
Answer(r) == IF r.present /\ ~r.tomb THEN RetFound(r.value, r.flags) ELSE RetNotFound

\* Thread t has returned from a Get.
GetDone(t) == pc[t] = "idle" /\ op[t].name = "Get"

\* C1: a Get(k) that starts after Set(k, v, f) has returned, with no other
\* Set(k) or Delete(k) since, returns found with value v and flags f, in
\* every interleaving with the flush of another writer.
C1_SetVisibleToLaterGet ==
    \A t \in Threads :
        (GetDone(t) /\ exp[t].valid /\ exp[t].rec.present /\ ~exp[t].rec.tomb)
            => ret[t] = RetFound(exp[t].rec.value, exp[t].rec.flags)

\* C2: after Delete(k) has returned, a Get(k) that starts later returns
\* not-found until a later Set(k), whatever the segments hold and in every
\* interleaving with the flush of another thread.
C2_DeleteHidesKey ==
    \A t \in Threads :
        (GetDone(t) /\ exp[t].valid /\ exp[t].rec.present /\ exp[t].rec.tomb)
            => ret[t] = RetNotFound

\* C3: under any single-threaded sequence of Set, Delete and Get on one
\* engine, every call returns and every Get answers what a plain map
\* answers.
C3_GetAnswersAsPlainMap ==
    \A t \in Threads : GetDone(t) => ret[t] = Answer(exp[t].rec)
C3_PlainMap ==
    /\ C3_GetAnswersAsPlainMap
    /\ \A t \in Threads : pc[t] = "idle" => ret[t].kind # "panic"

\* C4: after Close and NewStorage on the same directory with the same
\* number of shards, Get answers for every key what it answered just
\* before Close.
C4_ReopenPreservesGet ==
    [][(closed /\ ~closed' /\ shardsCount' = shardsCount)
            => \A k \in Keys : GetAt(shardsCount', skipList', tables', k) = snap[k]]_vars

\* C5: the registry lists the segments in the order the files were
\* created, so of two segments holding a key the later-created one is
\* asked first.
C5_LoadOrderIsCreationOrder ==
    \A i, j \in 1..Len(tables) : i < j => tables[i].ts < tables[j].ts

\* The newest file of the directory that holds key holds the latest record
\* written for key, and no skip list holds key.
NewestOnDisk(key) ==
    /\ ~skipList[getShard(key, shardsCount)].recs[key].present
    /\ \E f \in dir :
        /\ f.complete
        /\ \E j \in 1..Len(f.body.entries) :
            LET e == f.body.entries[j]
            IN  e.key = key /\ Rec(e.value, e.flags, e.tomb) = mem[key]
        /\ \A g \in dir :
            (\E j \in 1..Len(g.body.entries) : g.body.entries[j].key = key)
                => g.ts <= f.ts

\* C6: whatever shard counts the directory was written and is opened with,
\* Get answers the newest record written for a key (here: whenever that
\* record is the one the newest file holding the key holds).
C6_ShardCountMayChange ==
    \A k \in Keys :
        ((\A t \in Threads : pc[t] = "idle") /\ ~closing /\ NewestOnDisk(k))
            => GetNow(k) = Answer(mem[k])

\* C7: Get answers from the newest source holding a record for the key:
\* the owning shard's skip list if it holds one, else the latest
\* registered segment that holds one; older records have no influence.
C7_GetAnswersFromNewestSource ==
    \A t \in Threads : GetDone(t) => ret[t] = Answer(exp[t].newest)

\* A Get was answered from the registry's latest segment holding its key
\* while an earlier segment holds another record for that key.
C7_Witness ==
    \E t \in Threads :
        /\ GetDone(t) /\ ret[t].kind = "found"
        /\ ~skipList[getShard(op[t].key, shardsCount)].recs[op[t].key].present
        /\ \E i, j \in 1..Len(tables) :
            /\ i < j
            /\ SSTableGet(tables[j], op[t].key) = Rec(ret[t].value, ret[t].flags, FALSE)
            /\ SSTableGet(tables[i], op[t].key).present
            /\ SSTableGet(tables[i], op[t].key) # SSTableGet(tables[j], op[t].key)

\* C8: when the first record Get meets for a key is a tombstone it
\* answers not-found whatever older sources hold, and it never answers
\* found from a record with the tombstone bit set.
C8_TombstoneIsDefinitive ==
    \A t \in Threads :
        GetDone(t) =>
            /\ exp[t].newest.tomb => ret[t] = RetNotFound
            /\ ret[t].kind = "found" =>
                (exp[t].newest.present /\ ~exp[t].newest.tomb)

\* A Get met a tombstone first and answered not-found while a registered
\* segment holds a value for the key.
C8_Witness ==
    \E t \in Threads :
        /\ GetDone(t) /\ ret[t] = RetNotFound /\ exp[t].newest.tomb
        /\ \E i \in 1..Len(tables) :
            LET r == SSTableGet(tables[i], op[t].key)
            IN  r.present /\ ~r.tomb

\* The positions of a thread that holds the flush lock.
InFlushBody(p) == p \in {"F_size", "F_shard", "F_write", "F_load", "F_unlock"}

\* C9: at most one thread is in the flush body; a thread whose TryLock
\* fails leaves flush at once with success, and no shard, lock, file,
\* registry entry or shardsSize changes.
C9_SingleFlightFlush ==
    [][ /\ \A t, u \in Threads :
            (InFlushBody(pc'[t]) /\ InFlushBody(pc'[u])) => t = u
        /\ \A t \in Threads :
            (pc[t] = "F_try" /\ pc'[t] # "F_try" /\ flushMutex # 0) =>
                /\ pc'[t] = "idle" /\ ret'[t] = RetOk
                /\ UNCHANGED <<skipList, shardMu, shardsSize, flushMutex, tables,
                               dir, clock>>
      ]_vars

\* One thread is in the flush body and another's Set has returned success
\* after its TryLock failed, its record still in the skip list.
C9_Witness ==
    \E t, u \in Threads :
        /\ t # u /\ InFlushBody(pc[t]) /\ flushMutex = t
        /\ pc[u] = "idle" /\ op[u].name = "Set" /\ op[u].lock = "busy"
        /\ ret[u] = RetOk
        /\ skipList[getShard(op[u].key, shardsCount)].recs[op[u].key].present

C11_EmptyKeyIsInvalid ==
    \A t \in Threads :
        (pc[t] = "idle" /\ op[t].name \in {"Set", "Get"} /\ op[t].key = KeyEmpty)
            => /\ ret[t].kind = "err"
               /\ \A i \in DOMAIN skipList : ~skipList[i].recs[KeyEmpty].present

\* The sum of the shards' skip list sizes.
RECURSIVE SumSizes(_, _)
SumSizes(sls, i) == IF i < 0 THEN 0 ELSE sls[i].size + SumSizes(sls, i - 1)
ShardsTotal == SumSizes(skipList, shardsCount - 1)

\* C12: whenever no call is in progress, shardsSize equals the sum of the
\* shards' skip list sizes.
C12_SizeMatchesShardsAtQuiesce ==
    (\A t \in Threads : pc[t] = "idle") => shardsSize = ShardsTotal

\* C13: a Delete that adds a record to its shard's skip list adds the
\* skip list's growth to shardsSize, as Set does.
C13_DeleteAccountsSize ==
    [][(nops' < nops /\ pc' = pc /\ skipList' # skipList)
            => shardsSize' - shardsSize = ShardsTotal' - ShardsTotal]_vars

\* C14: writing any non-empty index, of any size and with any block size,
\* and opening the file yields a segment (the write completes), and Get
\* on that segment returns for every key exactly what the index holds
\* for it: its record, or nothing when the key is not in the index.
C14_WriteOpenPreservesRecords ==
    /\ sst.stage # "panic"
    /\ sst.stage = "got" => sst.got = SkipListGet(sst.sl, sst.key)

\* C19: for a filter made for any n >= 0, every Add completes, and every
\* key that was added is contained from then on.
C19_FilterHasNoFalseNegatives ==
    /\ bf.stage # "panic"
    /\ \A k \in bf.added : BloomContains(bf, k)

\* C20: on every segment and for every key, the sparse-index path of Get
\* (search of the index, the block up to the next index entry or the
\* filter, linear scan) finds the key exactly when it was written, and
\* then with the record written.
C20_SparsePathFindsWrittenKeys ==
    sst.stage = "got" => sst.sparse = SkipListGet(sst.sl, sst.key)

\* A key that is no index entry's key is found in the last block of a
\* segment with at least two index entries.
C20_Witness ==
    /\ sst.stage = "got"
    /\ Len(sst.table.index) >= 2
    /\ StrLess(sst.table.index[Len(sst.table.index)].key, sst.key)
    /\ sst.sparse.present

\* C15: every segment of the registry was registered after its file was
\* written completely, and the file is still in the directory under its
\* name with the content the segment was opened on: no later write has
\* emptied or replaced it.
C15_RegisteredFileIsNeverReplaced ==
    \A j \in 1..Len(tables) :
        \E f \in dir : f.complete /\ OpenSSTable(f) = tables[j]

\* The flush of thread f is between locking shard i and unlocking it.
FlushHolds(f, i) == pc[f] = "F_write" /\ fl[f].i = i /\ shardMu[i] = f

\* C16: while a flush holds the lock of shard i it has released the lock
\* of every shard before i (and has not come to those after i), and
\* another thread's Set or Get waits for nothing but the lock of the
\* key's shard: with that lock free the call starts, a Get answered by
\* the shard's skip list returns in that step, the Set's size update
\* runs, and a Set that reached the threshold finds flushMutex taken and
\* returns nil without flushing.
C16_OtherShardsProceedDuringFlush ==
    \A f \in Threads, i \in DOMAIN skipList :
        FlushHolds(f, i) =>
            /\ \A j \in 0..(i - 1) : shardMu[j] = 0
            /\ \A u \in Threads \ {f} :
                /\ \A key \in Keys :
                    LET j == getShard(key, shardsCount)
                    IN  (CanCall(u) /\ shardMu[j] = 0) =>
                            /\ ENABLED SetOf(u, {key})
                            /\ ENABLED GetOf(u, {key})
                            /\ SkipListGet(skipList[j], key).present =>
                                    ENABLED (GetOf(u, {key}) /\ pc'[u] = "idle")
                /\ pc[u] = "S_add" => ENABLED SetAdd(u)
                /\ pc[u] = "F_try" =>
                        ENABLED (FlushTry(u) /\ pc'[u] = "idle" /\ ret'[u] = RetOk)

\* A thread's flush holds the lock of shard 1 at the second call issued;
\* the other thread's Set on a key of shard 0 reached the threshold,
\* found flushMutex taken and returned nil, its record in shard 0.
C16_Witness ==
    \E f \in Threads, u \in Threads :
        /\ u # f
        /\ shardsCount = 2
        /\ FlushHolds(f, 1)
        /\ nops = MaxOps - 2
        /\ pc[u] = "idle" /\ op[u].name = "Set" /\ ret[u] = RetOk
        /\ op[u].lock = "busy"
        /\ getShard(op[u].key, shardsCount) = 0
        /\ SkipListGet(skipList[0], op[u].key).present

\* The record a Set call of thread t stores.
SetRec(t) == Rec(op[t].value, op[t].flags, FALSE)

\* C17: when the calls made so far are Sets of one key by two or more
\* threads (each thread's last call is such a Set, or it has made none),
\* all have returned and the key's shard still holds the key, the record
\* is the one of a single call, value and flags together, and of the call
\* that took the shard's lock last (the plain map is written in lock
\* order).
C17_ConcurrentSetLastLockerWins ==
    \A key \in Keys :
        LET W == {t \in Threads : op[t].name = "Set" /\ op[t].key = key}
            r == SkipListGet(skipList[getShard(key, shardsCount)], key)
        IN  (/\ Cardinality(W) >= 2
             /\ \A t \in Threads : pc[t] = "idle" /\ (t \in W \/ op[t].name = "none")
             /\ r.present)
                => /\ r \in {SetRec(t) : t \in W}
                   /\ r = mem[key]

\* Two Set calls of one key with different arguments overlapped: t's call
\* ran the flush, which failed and kept the shard; u's call found
\* flushMutex taken while t flushed and was last to lock the shard, and
\* the shard holds u's record.
C17_Witness ==
    \E t \in Threads, u \in Threads :
        /\ t # u
        /\ nops = MaxOps - 2
        /\ pc[t] = "idle" /\ op[t].name = "Set" /\ ret[t] = RetErr
        /\ pc[u] = "idle" /\ op[u].name = "Set" /\ ret[u] = RetOk
        /\ op[u].lock = "busy"
        /\ op[u].key = op[t].key
        /\ SetRec(u) # SetRec(t)
        /\ SkipListGet(skipList[getShard(op[t].key, shardsCount)], op[t].key) = SetRec(u)

\* C18: a Get that issued a segment read which failed, on the hash-index
\* path or on the block read of the sparse-index path, returns the I/O
\* error.
C18_ReadErrorIsReturned ==
    \A t \in Threads :
        (GetDone(t) /\ exp[t].failed # {}) => ret[t] = RetErr

\* The shard locks thread t holds.
ShardsHeld(t) == {i \in 0..(shardsCount - 1) : shardMu[i] = t}

\* Thread t holds tablesMutex, or is about to wait for it.
AtTablesMutex(t) ==
    \/ t \in tablesMutex.readers
    \/ tablesMutex.writer = t
    \/ pc[t] \in {"G_scan", "F_load", "C_tables"}

\* No thread holds two shard locks, and none holds a shard lock while it
\* holds or waits for tablesMutex.
LockDiscipline ==
    \A t \in Threads :
        /\ Cardinality(ShardsHeld(t)) <= 1
        /\ AtTablesMutex(t) => ShardsHeld(t) = {}

\* Thread t is at a Lock() or an RLock() that is not granted in this
\* state (every other step of a call can always be taken).
Blocked(t) ==
    \/ pc[t] = "F_shard" /\ shardMu[fl[t].i] # 0
    \/ pc[t] \in {"F_load", "C_tables"} /\ tablesMutex # NoLock
    \/ pc[t] = "G_scan" /\ tablesMutex.writer # 0

\* Whenever threads are inside calls, one of them can take its next step.
NoDeadlock ==
    (\E t \in Threads : pc[t] # "idle")
        => \E t \in Threads : pc[t] # "idle" /\ ~Blocked(t)

\* C21: in every reachable state no thread holds two shard locks and no
\* thread holds a shard lock while holding or waiting for the registry's
\* lock, and no reachable state of concurrent Set, Get, Delete, flush and
\* Close is a deadlock.
C21_LockDisciplineAndNoDeadlock == LockDiscipline /\ NoDeadlock

\* The engine locks thread t holds: shard locks, tablesMutex, flushMutex.
LocksHeld(t) ==
    {<<"shard", i>> : i \in ShardsHeld(t)}
        \cup (IF t \in tablesMutex.readers \/ tablesMutex.writer = t
              THEN {<<"tables">>} ELSE {})
        \cup (IF flushMutex = t THEN {<<"flush">>} ELSE {})

\* C22: outside the flush path no engine lock is held across file I/O:
\* while Get reads the segment files it holds neither a shard lock nor the
\* registry's lock.
C22_GetReadsSegmentsWithoutLocks ==
    \A t \in Threads :
        pc[t] = "G_read" =>
            /\ ShardsHeld(t) = {}
            /\ <<"tables">> \notin LocksHeld(t)

\* ------------------------------------------------- fair scheduling
\* The places of a thread inside the engine, and the values of flush's
\* locals.
PcValues == {"idle", "S_add", "G_scan", "G_read", "F_try", "F_size", "F_shard",
             "F_write", "F_load", "L_open", "F_unlock", "C_tables", "C_close"}
FlValues == [i : 0..MaxShards,
             path : {<<>>} \cup ((0..(MaxShards - 1))
                        \X (UnixNanoBase..(UnixNanoBase + (MaxOps + 1) * MaxShards))),
             err : {"nil", "err", "panic"}]

\* Thread t, inside a call and not waiting for a lock, takes its next
\* step: every step of a call moves the thread's place or flush's locals,
\* and no other thread's.
Advance(t) ==
    /\ pc[t] # "idle"
    /\ ~Blocked(t)
    /\ \E q \in PcValues :
        /\ pc' = [pc EXCEPT ![t] = q]
        /\ \E g \in FlValues :
            /\ fl' = [fl EXCEPT ![t] = g]
            /\ <<q, g>> # <<pc[t], fl[t]>>

\* Concurrent threads on an engine opened on an empty directory, file
\* I/O that does not fail, and a scheduler that runs every thread whose
\* next step can be taken (Go's runtime runs every runnable goroutine; a
\* goroutine waiting at a lock is not runnable).
InitFair == /\ \E n \in ShardCounts : InitFor(n, {}, NoMap)
            /\ pre = NoPre
            /\ nfail = MaxFail
            /\ nops = MaxOps
            /\ sst = NoSst
            /\ bf = NoBf
Fairness == \A t \in Threads : WF_<<pc, fl>>(Advance(t))
SpecFair == InitFair /\ [][NextLock]_vars /\ Fairness

\* C23: under fair scheduling and terminating file I/O every invoked Set,
\* Get, Delete and Close eventually returns, whatever the number of
\* concurrent callers and the interleaving with flushes.
C23_EveryCallReturns ==
    \A t \in Threads : (pc[t] # "idle") ~> (pc[t] = "idle")

InitFlush == /\ \E n \in ShardCounts :
                 \/ InitFor(n, {}, NoMap)
                 \/ InitFor(n, EarlierRun(n), EarlierMap)
             /\ pre = [NoPre EXCEPT !.on = TRUE]
             /\ nfail = 0
             /\ nops = MaxOps
             /\ sst = NoSst
             /\ bf = NoBf
SpecFlush == InitFlush /\ [][NextOne]_vars

\* Storage.flush with load, where loadSSTable returns an error
\* (OpenSSTable could not open or read the file just written): flush
\* returns the error; the file stays, the registry is as it was.
FlushLoadFail(t) ==
    /\ pc[t] = "F_load"
    /\ tablesMutex = NoLock
    /\ nfail < MaxFail
    /\ nfail' = nfail + 1
    /\ pc' = [pc EXCEPT ![t] = "F_unlock"]
    /\ fl' = [fl EXCEPT ![t].err = "err"]
    /\ UNCHANGED <<pre, hdr, list, tablesMutex, sst, bf, shardsCount, skipList, shardMu,
                   shardsSize, flushMutex, tables, dir, clock, closing, closed, nops, op,
                   ret, exp, mem, snap>>

\* One thread on one open engine where a segment write or the opening of
\* the segment written may fail.
NextLoad == Step(1) \/ FlushLoadFail(1)
SpecLoad == InitFlush /\ [][NextLoad]_vars

\* The sum of sizes[0..i].
RECURSIVE SumTo(_, _)
SumTo(sizes, i) == IF i < 0 THEN 0 ELSE sizes[i] + SumTo(sizes, i - 1)

\* Thread t's Set has run flush(true) over every shard without an error
\* and is at the deferred unlock; shardsSize was positive at its start.
FlushedAll(t) ==
    /\ pc[t] = "F_unlock" /\ op[t].name = "Set" /\ fl[t].err = "nil"
    /\ pre.valid /\ pre.shardsSize > 0

\* C25: a successful flush(true) that ran alone, begun with shardsSize > 0,
\* leaves every shard's skip list empty, has appended to the registry one
\* reader for each shard that was not empty and none for the others, the
\* earlier entries and their order as they were, has lowered shardsSize by
\* the sizes of the skip lists flushed, and Get answers for every key what
\* it answered before the flush.
C25_FlushFrame ==
    \A t \in Threads :
        FlushedAll(t) =>
            LET old == Len(pre.tables)
                nonEmpty == {i \in 0..(shardsCount - 1) : pre.sizes[i] > 0}
            IN  /\ \A i \in 0..(shardsCount - 1) : skipList[i] = NewSkipList
                /\ Len(tables) = old + Cardinality(nonEmpty)
                /\ SubSeq(tables, 1, old) = pre.tables
                /\ {tables[j].shard : j \in (old + 1)..Len(tables)} = nonEmpty
                /\ shardsSize = pre.shardsSize - SumTo(pre.sizes, shardsCount - 1)
                /\ \A k \in AllKeys : GetNow(k) = pre.get[k]

\* Such a flush on an engine of two shards, both with records, whose
\* registry held a segment of an earlier run.
C25_Witness ==
    \E t \in Threads :
        /\ FlushedAll(t)
        /\ shardsCount = 2
        /\ \A i \in 0..1 : pre.sizes[i] > 0
        /\ Len(pre.tables) > 0
        /\ \E k \in Keys : pre.get[k].kind = "found"

\* C26: for every segment and every search key, two keys with one hash
\* included, SSTable.Get with the hash index returns what the sparse
\* index and the block scan alone return; a hash hit on a record of
\* another key goes on to the sparse index.
C26_HashIndexIsAnAccelerator ==
    sst.stage = "got" => sst.got = sst.sparse

\* The record the hash index of the segment under test gives for key.
HashHit(key) ==
    {e \in {sst.table.entries[i] : i \in 1..Len(sst.table.entries)} :
        \E p \in sst.table.hashIndex : p.h = hashString(key) /\ p.offset = e.offset}

\* A probe of a written key whose hash-index entry is the record of
\* another key; the record of the probe's key was returned.
C26_Witness ==
    /\ sst.stage = "got"
    /\ sst.got.present
    /\ \E e \in HashHit(sst.key) : e.key # sst.key

\* C27: a key longer than 2^16 - 1 bytes is rejected by Set, so no record
\* is written whose 16-bit key-length field holds len(key) mod 2^16 and
\* not len(key).
C27_LongKeyIsRejected ==
    /\ (hdr.stage # "none" /\ hdr.keyLen > 65535) => hdr.stage = "rejected"
    /\ hdr.stage \in {"written", "read"} => hdr.kLen = hdr.keyLen

\* Record r of key is in a completely written segment file.
InFile(key, r) ==
    \E f \in dir :
        /\ f.complete
        /\ \E j \in 1..Len(f.body.entries) :
            LET e == f.body.entries[j]
            IN  e.key = key /\ Rec(e.value, e.flags, e.tomb) = r

\* C28: a Close called while another thread's flush holds flushMutex does
\* not return nil before every record acknowledged before the call is in
\* a completely written segment file, and after Close has closed the
\* registry's readers no flush appends a reader to the registry.
C28_CloseWaitsForFlushInFlight ==
    /\ [](\A t \in Threads :
            (/\ op[t].name = "Close" /\ op[t].lock = "busy"
             /\ pc[t] = "idle" /\ ret[t] = RetOk)
                => \A a \in op[t].acked : InFile(a[1], a[2]))
    /\ [][closed => tables' = tables]_vars

\* Thread t's flush wrote the file of shard fl[t].i and loadSSTable then
\* returned an error; the flush is at its deferred unlock.
LoadFailed(t) ==
    /\ pc[t] = "F_unlock" /\ fl[t].err = "err" /\ fl[t].path # <<>>
    /\ pre.valid

\* C29: when flush(true) has written shard i's file and opening or
\* registering it fails, Get answers for every key of shard i written by
\* an earlier call (every key but the one of the Set that runs the flush)
\* what it answered before the flush, and shardsSize equals the sum of
\* the skip lists' sizes as it did before.
C29_LoadFailureKeepsRecords ==
    \A t \in Threads :
        LoadFailed(t) =>
            /\ \A k \in Keys \ {op[t].key} :
                getShard(k, shardsCount) = fl[t].i => GetNow(k) = pre.get[k]
            /\ pre.shardsSize = SumTo(pre.sizes, shardsCount - 1)
                    => shardsSize = ShardsTotal

\* C30: whenever no call is running (after a successful flush, after a
\* flush whose segment write failed part-way), every .sst file of the
\* directory is a completely written segment, so that NewStorage on the
\* directory opens every file and serves every registered segment.
C30_EverySstFileIsComplete ==
    (\A t \in Threads : pc[t] = "idle") =>
        /\ \A f \in dir : f.complete
        /\ \A j \in 1..Len(tables) :
            \E k \in 1..Len(loadSSTables(dir)) : loadSSTables(dir)[k] = tables[j]

\* ------------------------------------------------ Set calls only
\* One step of thread t in an execution made of Set calls and the
\* flushes they trigger.
StepSet(t) ==
    \/ Set(t) \/ SetAdd(t)
    \/ FlushTry(t) \/ FlushSize(t) \/ FlushShard(t) \/ FlushWrite(t)
    \/ FlushLoad(t) \/ FlushUnlock(t)

\* Concurrent threads that call Set only.
NextSet == \E t \in Threads : StepSet(t)
SpecSet == Init /\ [][NextSet]_vars

\* C31: in a concurrent execution of Set calls and their flushes without
\* an I/O failure, once every call has returned shardsSize equals the sum
\* of the shards' skip list sizes and is not negative.
C31_SetOnlySizeSettles ==
    (nfail = 0 /\ \A t \in Threads : pc[t] = "idle") =>
        /\ shardsSize = ShardsTotal
        /\ shardsSize >= 0

\* Every call has returned after two threads' Sets met a flush of this
\* run: one Set ran the flush, another found the flush lock taken, and a
\* record written behind the flush is still in memory.
C31_Witness ==
    /\ nfail = 0 /\ \A t \in Threads : pc[t] = "idle"
    /\ \E t \in Threads, u \in Threads :
        /\ op[t].name = "Set" /\ op[t].lock = "taken"
        /\ op[u].name = "Set" /\ op[u].lock = "busy"
    /\ \E f \in dir : f.ts > UnixNanoBase
    /\ shardsSize > 0

\* The bytes of the data region before its n-th record.
RECURSIVE BytesBefore(_, _)
BytesBefore(entries, n) ==
    IF n <= 1 THEN 0
    ELSE BytesBefore(entries, n - 1)
         + 12 + Len(entries[n - 1].key) + entries[n - 1].value.len

\* C32: in a segment file written from a non-empty index, the sparse
\* index has an entry for the first record at offset 0, its keys ascend
\* strictly in the order of the data region, each entry's offset is the
\* byte offset at which the record of its key begins, and consecutive
\* entries are at least blockSize bytes apart.
C32_SparseIndexShape ==
    sst.stage \in {"written", "opened", "got"} =>
        LET entries == sst.body.entries
            index == sst.body.index
        IN  /\ Len(entries) > 0 /\ Len(index) > 0
            /\ index[1].offset = 0 /\ index[1].key = entries[1].key
            /\ \A j \in 1..Len(index) :
                \E n \in 1..Len(entries) :
                    /\ entries[n].key = index[j].key
                    /\ index[j].offset = BytesBefore(entries, n)
                    /\ j < Len(index) =>
                        \E m \in (n + 1)..Len(entries) :
                            entries[m].key = index[j + 1].key
            /\ \A j \in 1..(Len(index) - 1) :
                /\ StrLess(index[j].key, index[j + 1].key)
                /\ index[j + 1].offset - index[j].offset >= sst.blockSize

\* A file with at least two index entries in which some record has no
\* entry, written with a block size above the smallest record.
C32_Witness ==
    /\ sst.stage = "written"
    /\ sst.blockSize > 13
    /\ Len(sst.body.index) >= 2
    /\ Len(sst.body.entries) > Len(sst.body.index)

\* ------------------------------------------------ one skip list
\* MaxLevel of skiplist.go, lowered: the levels a node can be linked at.
MaxLevel == 3
\* A nil *Node; the head is node 1 of nodes, the others follow in the
\* order they were allocated.
Nil == 0
\* The keys given to the list: "a" < "ab" < "b".
ListKeys == Keys \cup {KeyAB}
HeadNode == 1
Node(key, value, flags, isTombstone, next) ==
    [key |-> key, value |-> value, flags |-> flags, isTombstone |-> isTombstone,
     next |-> next]

\* NewSkipList: a head with MaxLevel nil links, level 1, size 0.
NewList ==
    [NoList EXCEPT !.stage = "new",
                   !.nodes = <<Node(KeyEmpty, NoBytes, 0, FALSE,
                                    [i \in 1..MaxLevel |-> Nil])>>,
                   !.level = 1]

\* A walk along level i that also steps over a node holding key.
RECURSIVE ForwardPast(_, _, _, _)
ForwardPast(nodes, current, i, key) ==
    LET n == nodes[current].next[i]
    IN  IF n # Nil /\ (nodes[n].key = key \/ StrLess(nodes[n].key, key))
        THEN ForwardPast(nodes, n, i, key)
        ELSE current

\* The inner loop of Set and Get: along level i (1 is the source's level
\* 0) while the next node's key is below key.
RECURSIVE Forward(_, _, _, _)
Forward(nodes, current, i, key) ==
    LET n == nodes[current].next[i]
    IN  IF n # Nil /\ StrLess(nodes[n].key, key)
        THEN Forward(nodes, n, i, key)
        ELSE current

\* The outer loop of Set and Get, from level i down: update[i] is the
\* node the walk along level i stopped at.
RECURSIVE Descend(_, _, _, _, _)
Descend(nodes, current, i, key, update) ==
    IF i < 1 THEN update
    ELSE LET c == Forward(nodes, current, i, key)
         IN  Descend(nodes, c, i - 1, key, [update EXCEPT ![i] = c])
Search(s, key) ==
    Descend(s.nodes, HeadNode, s.level, key, [i \in 1..MaxLevel |-> Nil])

\* SkipList.Set where randomLevel returns newLevel: a node holding key
\* is overwritten and Set returns; else a node of newLevel links is
\* linked behind update[i] at each of its levels and size grows by
\* len(key) + len(value) + 12.
ListSet(s, key, value, flags, isTombstone, newLevel) ==
    LET update == Search(s, key)
        target == s.nodes[update[1]].next[1]
    IN  IF target # Nil /\ s.nodes[target].key = key
        THEN [s EXCEPT !.nodes[target].value = value,
                       !.nodes[target].flags = flags,
                       !.nodes[target].isTombstone = isTombstone]
        ELSE LET upd == [i \in 1..MaxLevel |->
                            IF i > s.level /\ i <= newLevel THEN HeadNode ELSE update[i]]
                 id == Len(s.nodes) + 1
                 newNode == Node(key, value, flags, isTombstone,
                                 [i \in 1..newLevel |-> s.nodes[upd[i]].next[i]])
                 linked == [n \in 1..Len(s.nodes) |->
                              [s.nodes[n] EXCEPT !.next =
                                  [i \in DOMAIN s.nodes[n].next |->
                                      IF i <= newLevel /\ upd[i] = n THEN id
                                      ELSE s.nodes[n].next[i]]]]
             IN  [s EXCEPT !.nodes = Append(linked, newNode),
                           !.level = IF newLevel > s.level THEN newLevel ELSE s.level,
                           !.size = s.size + Len(key) + value.len + 12]

\* SkipList.Get: (value, flags, isTombstone, found).
ListGet(s, key) ==
    LET update == Search(s, key)
        target == s.nodes[update[1]].next[1]
    IN  IF target # Nil /\ s.nodes[target].key = key
        THEN Rec(s.nodes[target].value, s.nodes[target].flags,
                 s.nodes[target].isTombstone)
        ELSE NoRec

\* A call of Set or Delete on the list, noting its key and its record.
ListCall(key, value, flags, isTombstone) ==
    /\ list.stage \in {"new", "set", "got"}
    /\ \E newLevel \in 1..MaxLevel :
        list' = [ListSet(list, key, value, flags, isTombstone, newLevel)
                    EXCEPT !.stage = "set",
                           !.last[key] = Rec(value, flags, isTombstone),
                           !.key = key,
                           !.got = NoRec]
    /\ UNCHANGED <<engine, sst, bf, hdr>>

\* NewSkipList().
SlNew ==
    /\ list.stage = "none"
    /\ list' = NewList
    /\ UNCHANGED <<engine, sst, bf, hdr>>
\* SkipList.Set(key, value, flags, false).
SlSet == \E key \in ListKeys, a \in SetArgs : ListCall(key, a[1], a[2], FALSE)
\* SkipList.Delete(key): Set(key, nil, 0, true).
SlDelete == \E key \in ListKeys : ListCall(key, NoBytes, 0, TRUE)
\* SkipList.Get(key).
SlGet ==
    /\ list.stage \in {"new", "set", "got"}
    /\ \E key \in ListKeys :
        list' = [list EXCEPT !.stage = "got", !.key = key,
                             !.got = ListGet(list, key)]
    /\ UNCHANGED <<engine, sst, bf, hdr>>

NextSkip == SlNew \/ SlSet \/ SlDelete \/ SlGet
SpecSkip == InitHdr /\ [][NextSkip]_vars

\* C33: every Set or Delete call on the skip list, a call on a key the
\* list already holds included, raises the list's size by
\* len(key) + len(value) + 12.
C33_EverySetAddsNominalSize ==
    [][(list.stage # "none" /\ list'.stage = "set") =>
            list'.size = list.size + Len(list'.key)
                         + list'.last[list'.key].value.len + 12]_vars

\* The nodes linked at level i, from the head's link on, at most fuel of
\* them.
RECURSIVE Chain(_, _, _, _)
Chain(nodes, n, i, fuel) ==
    IF n = Nil \/ fuel = 0 THEN <<>>
    ELSE <<n>> \o Chain(nodes, nodes[n].next[i], i, fuel - 1)
LevelChain(i) == Chain(list.nodes, list.nodes[HeadNode].next[i], i, Len(list.nodes))

\* C34: after any Set and Delete calls on the skip list, whatever levels
\* randomLevel returned, the walk along the lowest level visits the keys
\* in strictly ascending order and every key written exactly once, every
\* node linked at a higher level is on the lowest level too, and Get
\* returns value, flags and tombstone of the key's latest Set or Delete.
C34_SkipListOrderedAndLatest ==
    list.stage # "none" =>
        LET low == LevelChain(1)
            written == {k \in AllKeys : list.last[k].present}
        IN  /\ \A j \in 1..(Len(low) - 1) :
                StrLess(list.nodes[low[j]].key, list.nodes[low[j + 1]].key)
            /\ {list.nodes[low[j]].key : j \in 1..Len(low)} = written
            /\ Len(low) = Cardinality(written)
            /\ \A i \in 2..MaxLevel :
                \A j \in 1..Len(LevelChain(i)) :
                    \E h \in 1..Len(low) : low[h] = LevelChain(i)[j]
            /\ \A k \in ListKeys : ListGet(list, k) = list.last[k]
            /\ list.stage = "got" => list.got = list.last[list.key]

\* Three keys were set with values, the list has grown to MaxLevel, and
\* Get has returned the tombstone that a Delete put on one of the nodes.
C34_Witness ==
    /\ list.stage = "got"
    /\ Len(list.nodes) = 4 /\ list.level = MaxLevel
    /\ list.size = 3 * (12 + 51) + 4
    /\ list.got.present /\ list.got.tomb
    /\ Len(LevelChain(2)) >= 2

====
